---------------------------- MODULE Spec2Model ----------------------------
(***************************************************************************)
(* State-machine model of the reconciliation store of blnk                 *)
(* (database/reconciliation.go) and of the batch driver that runs over it. *)
(*                                                                         *)
(* Tables are sequences of rows in insertion order, so that a duplicate    *)
(* row is representable and uniqueness is something the constraints have   *)
(* to establish.  Columns that no modelled operation reads (amount,        *)
(* reference, currency, description, source, started_at) are left out.     *)
(***************************************************************************)
EXTENDS Integers, Sequences, FiniteSets, TLC

(* ------------------------------ bounds --------------------------------- *)
\* number of store calls on the reconciliations table in one behaviour
MaxClock == 3
\* largest counter value a caller passes to UpdateReconciliationStatus
MaxCount == 1
\* number of store calls on matches and external_transactions in one behaviour
MaxCalls == 4
\* longest batch handed to RecordMatches, and largest page size
MaxBatch == 2
\* how often the driver's process is killed in one behaviour
MaxKills == 2
\* number of store calls on reconciliation_progress in one behaviour
MaxSaves == 4
\* number of requests UpdateInflightStatus serves in one behaviour
MaxRequests == 2

(* ------------------------------ domains -------------------------------- *)
RIds == {"r1", "r2"}
Uploads == {"u1", "u2"}
Statuses == {"pending", "running", "completed", "failed"}

\* ids in lexicographic order
ExtOrder == <<"e1", "e2">>
IntOrder == <<"i1", "i2">>
ExtIds == {ExtOrder[i] : i \in 1..Len(ExtOrder)}
IntIds == {IntOrder[i] : i \in 1..Len(IntOrder)}
Dates == {1, 2}
\* the session that calls RecordMatches; the single-statement calls come from any session
Callers == {"c1"}
\* the sessions that call SaveReconciliationProgress
Writers == {"w1", "w2"}

VARIABLES
    reconciliations,        \* blnk.reconciliations
    matches,                \* blnk.matches, the committed rows
    external_transactions,  \* blnk.external_transactions
    now,                    \* the wall clock read by time.Now()
    ret,                    \* the last single-statement store call: its arguments and what it returned
    rm,                     \* per session: the RecordMatches call it is in, and that call's transaction
    calls,                  \* store calls on matches and external_transactions begun so far
    pager,                  \* a reader walking one upload page by page
    progress,               \* blnk.reconciliation_progress
    drv,                    \* the batch driver's process: its position and what it holds in memory
    cand,                   \* per external transaction, the internal transactions the rules match it with
    pageSize,               \* the batch_size the run was created with
    kills,                  \* how often the driver's process has been killed
    pw,                     \* per session: the SaveReconciliationProgress call it is in
    matching_rules,         \* blnk.matching_rules
    api                     \* the HTTP handler UpdateInflightStatus: the request it serves and its response

driverVars == <<progress, drv, cand, pageSize, kills>>
otherVars == <<pw, matching_rules, api>>
vars == <<reconciliations, matches, external_transactions, now, ret, rm, calls, pager, driverVars, otherVars>>
reconFrame == <<matches, external_transactions, rm, calls, pager, driverVars, otherVars>>
matchFrame == <<reconciliations, now, pager, driverVars, otherVars>>

(* ------------------------------ errors --------------------------------- *)
\* apierror.NewAPIError(code, message, cause)
NewAPIError(code, message, cause) == [code |-> code, message |-> message, cause |-> cause]
Nil == [code |-> "nil", message |-> "", cause |-> "nil"]
ErrInternalServer == "Internal"
ErrNotFound == "NotFound"
\* the ways d.Conn fails underneath a call: a broken or cancelled connection
ConnFaults == {"nil", "conn"}

\* no store call has returned yet
NoCall == [op |-> "none", id |-> "", status |-> "", err |-> Nil, prev |-> <<>>, out |-> <<>>]

\* a session outside SaveReconciliationProgress
NoSave == [pc |-> "idle", rid |-> "", progress |-> <<>>, json |-> <<>>]
\* no request has reached the handler
NoRequest == [pc |-> "none", served |-> 0, hasID |-> FALSE, binds |-> FALSE, status |-> "",
              amount |-> 0,
              invoked |-> <<>>, err |-> {}, found |-> 0,
              writer |-> [status |-> 0, written |-> FALSE, bodies |-> <<>>]]

(* ---------------------------- sql.NullTime ----------------------------- *)
NullTimeOf(t, valid) == [Time |-> t, Valid |-> valid]
\* NullTime.Value(): an invalid NullTime is written as SQL NULL
NULL == [Time |-> 0, Valid |-> FALSE]
NullTimeValue(nt) == IF nt.Valid THEN nt ELSE NULL

(* ------------------------- sequence helpers ---------------------------- *)
Range(s) == {s[i] : i \in 1..Len(s)}
Indices(s, Test(_)) == {i \in 1..Len(s) : Test(s[i])}

(* ------------------------ blnk.reconciliations ------------------------- *)
ReconRows(id) == SelectSeq(reconciliations, LAMBDA r : r.reconciliation_id = id)
ReconExists(id) == \E i \in 1..Len(reconciliations) : reconciliations[i].reconciliation_id = id
\* reconciliations.reconciliation_id UNIQUE
ReconUniqueViolation(id) == ReconExists(id)

\* the rows a caller may pass to RecordReconciliation
Reconciliation(id, upload, status, matched, unmatched, completedAt) ==
    [reconciliation_id |-> id, upload_id |-> upload, status |-> status,
     matched_transactions |-> matched, unmatched_transactions |-> unmatched,
     completed_at |-> NullTimeValue(completedAt)]

\* RecordReconciliation: one INSERT; every failure is reported as Internal
RecordReconciliationErr(rec, fault) ==
    IF fault # "nil" THEN NewAPIError(ErrInternalServer, "Failed to record reconciliation", fault)
    ELSE IF ReconUniqueViolation(rec.reconciliation_id)
         THEN NewAPIError(ErrInternalServer, "Failed to record reconciliation", "unique_violation")
         ELSE Nil

RecordReconciliation(rec, fault) ==
    /\ now < MaxClock
    /\ now' = now + 1
    /\ UNCHANGED reconFrame
    /\ LET err == RecordReconciliationErr(rec, fault) IN
       /\ reconciliations' = IF err = Nil THEN Append(reconciliations, rec) ELSE reconciliations
       /\ ret' = [op |-> "RecordReconciliation", id |-> rec.reconciliation_id,
                  status |-> rec.status, err |-> err,
                  prev |-> ReconRows(rec.reconciliation_id), out |-> <<>>]

\* GetReconciliation: QueryRow + Scan; sql.ErrNoRows becomes NotFound
GetReconciliation(id, fault) ==
    /\ now < MaxClock
    /\ now' = now + 1
    /\ UNCHANGED reconFrame
    /\ UNCHANGED reconciliations
    /\ LET err == IF fault # "nil"
                  THEN NewAPIError(ErrInternalServer, "Failed to retrieve reconciliation", fault)
                  ELSE IF ~ReconExists(id)
                       THEN NewAPIError(ErrNotFound, "Reconciliation not found", "sql.ErrNoRows")
                       ELSE Nil
       IN ret' = [op |-> "GetReconciliation", id |-> id, status |-> "", err |-> err,
                  prev |-> ReconRows(id),
                  out |-> IF err = Nil THEN <<ReconRows(id)[1]>> ELSE <<>>]

\* completedAt := sql.NullTime{Time: time.Now(), Valid: status == "completed"}
CompletedAtAlwaysValid(status, t) == NullTimeOf(t, TRUE)
CompletedAtOnTerminal(status, t) == NullTimeOf(t, status \in {"completed", "failed"})
CompletedAtParam(status, t) == NullTimeOf(t, status = "completed")

\* UPDATE ... SET status = $2, matched = $3, unmatched = $4, completed_at = $5 WHERE reconciliation_id = $1
UpdateStatusRows(rows, id, status, matchedCount, unmatchedCount, completedAt) ==
    [i \in 1..Len(rows) |->
        IF rows[i].reconciliation_id = id
        THEN [rows[i] EXCEPT !.status = status,
                             !.matched_transactions = matchedCount,
                             !.unmatched_transactions = unmatchedCount,
                             !.completed_at = NullTimeValue(completedAt)]
        ELSE rows[i]]

UpdateStatusErr(rows, id, fault) ==
    IF fault # "nil"
    THEN NewAPIError(ErrInternalServer, "Failed to update reconciliation status", fault)
    ELSE IF Indices(rows, LAMBDA r : r.reconciliation_id = id) = {}   \* rowsAffected == 0
         THEN NewAPIError(ErrNotFound, "Reconciliation not found", "nil")
         ELSE Nil

UpdateReconciliationStatus(id, status, matchedCount, unmatchedCount, fault) ==
    /\ now < MaxClock
    /\ now' = now + 1
    /\ UNCHANGED reconFrame
    /\ LET completedAt == CompletedAtParam(status, now')
           err == UpdateStatusErr(reconciliations, id, fault)
       IN
       /\ reconciliations' =
             IF fault = "nil"
             THEN UpdateStatusRows(reconciliations, id, status, matchedCount, unmatchedCount, completedAt)
             ELSE reconciliations
       /\ ret' = [op |-> "UpdateReconciliationStatus", id |-> id, status |-> status,
                  err |-> err, prev |-> ReconRows(id), out |-> <<>>]


(* ---------------------------- blnk.matches ----------------------------- *)
\* model.Match as a caller builds it
Match(ext, int, rid) ==
    [ExternalTransactionID |-> ext, InternalTransactionID |-> int, ReconciliationID |-> rid]
\* a row of blnk.matches
MatchRow(ext, int, rid) ==
    [external_transaction_id |-> ext, internal_transaction_id |-> int, reconciliation_id |-> rid]
MatchKey(row) == <<row.reconciliation_id, row.external_transaction_id>>

\* matches(reconciliation_id, external_transaction_id) UNIQUE: inserting `rows`
\* into `table` would leave two rows with one key
MatchUniqueNeverViolated(table, rows) == FALSE
MatchUniqueViolation(table, rows) ==
    LET all == table \o rows IN
    \E i, j \in 1..Len(all) : i < j /\ j > Len(table) /\ MatchKey(all[i]) = MatchKey(all[j])

\* the rows pq.CopyIn writes for a batch: the reconciliation_id column is the
\* call's parameter, not the match's own ReconciliationID
CopyInRows(reconciliationID, batch) ==
    [i \in 1..Len(batch) |->
        MatchRow(batch[i].ExternalTransactionID, batch[i].InternalTransactionID, reconciliationID)]

Idle == [pc |-> "idle", rid |-> "", batch |-> <<>>, sent |-> 0, pending |-> <<>>,
         err |-> Nil, replay |-> FALSE]

\* rows another session's open transaction has written and not yet committed
InFlight(c) ==
    UNION {Range(rm[d].pending) : d \in Callers \ {c}}

\* what a row written inside a transaction does to the committed table before
\* COMMIT: nothing, the statement is prepared on txn and not on d.Conn
TableBeforeCommitAutocommit(table, rows) == table \o rows
TableBeforeCommit(table, rows) == table
\* txn.Commit()
TableAfterCommit(table, pending) == table \o pending
\* the deferred txn.Rollback() on every error return
TableAfterRollback(table, pending) == table

\* the session's previous call recorded this very payload and returned no error
IsReplay(c, reconciliationID, batch) ==
    /\ rm[c].pc = "done"
    /\ rm[c].err = Nil
    /\ rm[c].rid = reconciliationID
    /\ rm[c].batch = batch

Fail(c, message, cause) ==
    /\ rm' = [rm EXCEPT ![c] = [@ EXCEPT !.pc = "done", !.pending = <<>>,
                                         !.err = NewAPIError(ErrInternalServer, message, cause)]]
    /\ matches' = TableAfterRollback(matches, rm[c].pending)

\* d.Conn.BeginTx
RecordMatchesBegin(c, reconciliationID, batch, fault) ==
    /\ rm[c].pc \in {"idle", "done"}     \* no call of the session is in progress
    /\ calls < MaxCalls
    /\ calls' = calls + 1
    /\ ret' = NoCall
    /\ UNCHANGED <<matchFrame, external_transactions, matches>>
    /\ rm' = [rm EXCEPT ![c] =
                IF fault # "nil"
                THEN [Idle EXCEPT !.pc = "done", !.rid = reconciliationID, !.batch = batch,
                                  !.replay = IsReplay(c, reconciliationID, batch),
                                  !.err = NewAPIError(ErrInternalServer, "Failed to start transaction", fault)]
                ELSE [Idle EXCEPT !.pc = "begun", !.rid = reconciliationID, !.batch = batch,
                                  !.replay = IsReplay(c, reconciliationID, batch)]]

\* txn.PrepareContext(pq.CopyIn(...))
RecordMatchesPrepare(c, fault) ==
    /\ rm[c].pc = "begun"
    /\ ret' = NoCall
    /\ UNCHANGED <<matchFrame, external_transactions, calls>>
    /\ IF fault # "nil"
       THEN Fail(c, "Failed to prepare statement", fault)
       ELSE /\ rm' = [rm EXCEPT ![c].pc = "copying"]
            /\ UNCHANGED matches

\* stmt.ExecContext(ctx, row...) for the next match of the batch: the row is
\* copied to the server inside the transaction.  A row whose key an open
\* transaction of another session has written waits for that transaction to end.
RecordMatchesExec(c, fault) ==
    /\ rm[c].pc = "copying"
    /\ rm[c].sent < Len(rm[c].batch)
    /\ ret' = NoCall
    /\ UNCHANGED <<matchFrame, external_transactions, calls>>
    /\ LET row == CopyInRows(rm[c].rid, rm[c].batch)[rm[c].sent + 1] IN
       IF fault # "nil"
       THEN Fail(c, "Failed to execute statement", fault)
       ELSE /\ \A r \in InFlight(c) : MatchKey(r) # MatchKey(row)
            /\ rm' = [rm EXCEPT ![c] = [@ EXCEPT !.sent = @ + 1, !.pending = Append(@, row)]]
            /\ matches' = TableBeforeCommit(matches, <<row>>)

\* stmt.ExecContext(ctx): the COPY ends and the server reports what it found
RecordMatchesFlush(c, fault) ==
    /\ rm[c].pc = "copying"
    /\ rm[c].sent = Len(rm[c].batch)
    /\ ret' = NoCall
    /\ UNCHANGED <<matchFrame, external_transactions, calls>>
    /\ IF fault # "nil"
       THEN Fail(c, "Failed to flush batch insert", fault)
       ELSE IF MatchUniqueViolation(matches, rm[c].pending)
            THEN Fail(c, "Failed to flush batch insert", "unique_violation")
            ELSE /\ rm' = [rm EXCEPT ![c].pc = "flushed"]
                 /\ UNCHANGED matches

\* txn.Commit()
RecordMatchesCommit(c, fault) ==
    /\ rm[c].pc = "flushed"
    /\ ret' = NoCall
    /\ UNCHANGED <<matchFrame, external_transactions, calls>>
    /\ IF fault # "nil"
       THEN Fail(c, "Failed to commit transaction", fault)
       ELSE /\ rm' = [rm EXCEPT ![c] = [@ EXCEPT !.pc = "done", !.pending = <<>>]]
            /\ matches' = TableAfterCommit(matches, rm[c].pending)

\* RecordMatch: one INSERT, in its own implicit transaction
RecordMatch(match, fault) ==
    /\ calls < MaxCalls
    /\ calls' = calls + 1
    /\ UNCHANGED <<matchFrame, external_transactions, rm>>
    /\ LET row == MatchRow(match.ExternalTransactionID, match.InternalTransactionID,
                           match.ReconciliationID)
           err == IF fault # "nil"
                  THEN NewAPIError(ErrInternalServer, "Failed to record match", fault)
                  ELSE IF MatchUniqueViolation(matches, <<row>>)
                       THEN NewAPIError(ErrInternalServer, "Failed to record match", "unique_violation")
                       ELSE Nil
       IN
       /\ fault = "nil" => \A r \in InFlight("") : MatchKey(r) # MatchKey(row)
       /\ matches' = IF err = Nil THEN Append(matches, row) ELSE matches
       /\ ret' = [op |-> "RecordMatch", id |-> match.ReconciliationID, status |-> "",
                  err |-> err, prev |-> <<>>, out |-> <<row>>]

(* --------------------- blnk.external_transactions ---------------------- *)
\* model.ExternalTransaction as a caller builds it
ExternalTransaction(id, date) == [ID |-> id, Date |-> date]
\* external_transactions.id UNIQUE
ExternalUniqueViolation(id) ==
    \E i \in 1..Len(external_transactions) : external_transactions[i].id = id

\* RecordExternalTransaction: the INSERT names id, ..., date, source, upload_id;
\* the reconciliation_id column is not among them and keeps its default, NULL
RecordExternalTransaction(tx, uploadID, fault) ==
    /\ calls < MaxCalls
    /\ calls' = calls + 1
    /\ UNCHANGED <<matchFrame, matches, rm>>
    /\ LET err == IF fault # "nil"
                  THEN NewAPIError(ErrInternalServer, "Failed to record external transaction", fault)
                  ELSE IF ExternalUniqueViolation(tx.ID)
                       THEN NewAPIError(ErrInternalServer, "Failed to record external transaction",
                                        "unique_violation")
                       ELSE Nil
           row == [id |-> tx.ID, date |-> tx.Date, upload_id |-> uploadID,
                   reconciliation_id |-> "NULL"]
       IN
       /\ external_transactions' =
             IF err = Nil THEN Append(external_transactions, row) ELSE external_transactions
       /\ ret' = [op |-> "RecordExternalTransaction", id |-> tx.ID, status |-> "",
                  err |-> err, prev |-> <<>>, out |-> <<>>]

\* SELECT m.external_transaction_id, m.internal_transaction_id, ...
\* FROM matches m JOIN external_transactions et ON m.external_transaction_id = et.id
\* WHERE et.reconciliation_id = $1
MatchesJoinedByExternal(table, externals, reconciliationID) ==
    LET joined(m) == \E k \in 1..Len(externals) :
                        /\ m.external_transaction_id = externals[k].id
                        /\ externals[k].reconciliation_id = reconciliationID
        scanned(m) == [ExternalTransactionID |-> m.external_transaction_id,
                       InternalTransactionID |-> m.internal_transaction_id]
        sel == SelectSeq(table, joined)
    IN [i \in 1..Len(sel) |-> scanned(sel[i])]

GetMatchesByReconciliationID(reconciliationID, fault) ==
    /\ calls < MaxCalls
    /\ calls' = calls + 1
    /\ UNCHANGED <<matchFrame, matches, external_transactions, rm>>
    /\ ret' = [op |-> "GetMatchesByReconciliationID", id |-> reconciliationID, status |-> "",
               err |-> IF fault # "nil"
                       THEN NewAPIError(ErrInternalServer, "Failed to retrieve matches", fault)
                       ELSE Nil,
               prev |-> <<>>,
               out |-> IF fault # "nil" THEN <<>>
                       ELSE MatchesJoinedByExternal(matches, external_transactions, reconciliationID)]


(* ------------------ GetExternalTransactionsPaginated ------------------- *)
ExternalsOfUpload(externals, uploadID) ==
    SelectSeq(externals, LAMBDA r : r.upload_id = uploadID)

\* ORDER BY date DESC: the orders the store may return the rows in.  Rows with
\* the same date have no order among them; each execution may pick another.
DateDescOrders(rows) ==
    {q \in [1..Len(rows) -> Range(rows)] :
        /\ \A i, j \in 1..Len(rows) : i # j => q[i] # q[j]
        /\ \A i, j \in 1..Len(rows) : i < j => q[i].date >= q[j].date}

\* LIMIT $2 OFFSET $3
PageOfNoOffset(ordered, batchSize, offset) ==
    SubSeq(ordered, 1, IF batchSize < Len(ordered) THEN batchSize ELSE Len(ordered))
PageOf(ordered, batchSize, offset) ==
    SubSeq(ordered, offset + 1,
           IF offset + batchSize < Len(ordered) THEN offset + batchSize ELSE Len(ordered))

\* rows.Scan into model.ExternalTransaction
ScanExternal(rows) == [i \in 1..Len(rows) |-> ExternalTransaction(rows[i].id, rows[i].date)]

\* every result the query can return
GetExternalTransactionsPaginated(externals, uploadID, batchSize, offset) ==
    {ScanExternal(PageOf(q, batchSize, offset)) :
        q \in DateDescOrders(ExternalsOfUpload(externals, uploadID))}

\* a reader that fetches the pages at offsets 0, batchSize, 2*batchSize, ... until a
\* page comes back short, and may fetch a page again (as a resumed run does)
NoPager == [pc |-> "off", upload |-> "", batchSize |-> 0, pages |-> <<>>]

PagerStart(uploadID, batchSize) ==
    /\ pager.pc = "off"
    /\ pager' = [pc |-> "reading", upload |-> uploadID, batchSize |-> batchSize, pages |-> <<>>]
    /\ UNCHANGED <<reconciliations, matches, external_transactions, now, ret, rm, calls, driverVars, otherVars>>

PagerFetch ==
    /\ pager.pc = "reading"
    /\ \E page \in GetExternalTransactionsPaginated(external_transactions, pager.upload,
                       pager.batchSize, Len(pager.pages) * pager.batchSize) :
          pager' = [pager EXCEPT !.pages = Append(@, page),
                                 !.pc = IF Len(page) < pager.batchSize THEN "drained" ELSE "reading"]
    /\ UNCHANGED <<reconciliations, matches, external_transactions, now, ret, rm, calls, driverVars, otherVars>>

PagerRefetch(k) ==
    /\ pager.pc = "reading"
    /\ k \in 1..Len(pager.pages)
    /\ calls < MaxCalls
    /\ calls' = calls + 1
    /\ \E page \in GetExternalTransactionsPaginated(external_transactions, pager.upload,
                       pager.batchSize, (k - 1) * pager.batchSize) :
          pager' = [pager EXCEPT !.pages[k] = page]
    /\ UNCHANGED <<reconciliations, matches, external_transactions, now, ret, rm, driverVars, otherVars>>


(* --------------------- blnk.reconciliation_progress -------------------- *)
\* model.ReconciliationProgress, the progress document as the Go value the store
\* takes and returns: the five fields, and no place for any other
Progress(lastID, processed, matched, unmatched, offset) ==
    [last_processed_external_id |-> lastID, processed_count |-> processed,
     matched_count |-> matched, unmatched_count |-> unmatched, page_offset |-> offset]
\* model.ReconciliationProgress{}
EmptyProgress == Progress("", 0, 0, 0, 0)

\* a JSON document is a function from its keys to its values; a value is a
\* string or a number
JSONString(str) == [kind |-> "string", str |-> str, num |-> 0]
JSONNumber(num) == [kind |-> "number", str |-> "", num |-> num]
ProgressKeys == {"last_processed_external_id", "processed_count", "matched_count",
                 "unmatched_count", "page_offset"}

\* json.Marshal(progress): one key per field of the struct
MarshalProgress(doc) ==
    [k \in ProgressKeys |->
        IF k = "last_processed_external_id" THEN JSONString(doc[k]) ELSE JSONNumber(doc[k])]

\* json.Unmarshal(progressJSON, &progress): a key the struct declares must hold a
\* value of the field's type, a key it does not declare is skipped, a field
\* whose key is missing keeps its zero value
UnmarshalFails(json) ==
    \E k \in ProgressKeys \cap DOMAIN json :
        json[k].kind # (IF k = "last_processed_external_id" THEN "string" ELSE "number")
UnmarshalProgress(json) ==
    [k \in ProgressKeys |->
        IF k \in DOMAIN json
        THEN (IF k = "last_processed_external_id" THEN json[k].str ELSE json[k].num)
        ELSE EmptyProgress[k]]

\* INSERT ... ON CONFLICT (reconciliation_id) DO UPDATE SET progress = $2
UpsertFirstWriterWins(table, reconciliationID, json) ==
    IF \E i \in 1..Len(table) : table[i].reconciliation_id = reconciliationID
    THEN table
    ELSE Append(table, [reconciliation_id |-> reconciliationID, progress |-> json])
UpsertProgress(table, reconciliationID, json) ==
    IF \E i \in 1..Len(table) : table[i].reconciliation_id = reconciliationID
    THEN [i \in 1..Len(table) |->
            IF table[i].reconciliation_id = reconciliationID
            THEN [table[i] EXCEPT !.progress = json] ELSE table[i]]
    ELSE Append(table, [reconciliation_id |-> reconciliationID, progress |-> json])

ProgressRows(table, reconciliationID) ==
    SelectSeq(table, LAMBDA r : r.reconciliation_id = reconciliationID)

\* SaveReconciliationProgress as one call that meets no connection fault
SaveReconciliationProgress(table, reconciliationID, doc) ==
    UpsertProgress(table, reconciliationID, MarshalProgress(doc))

\* SELECT progress ... WHERE reconciliation_id = $1; sql.ErrNoRows is the empty
\* progress and no error, every other failure is Internal
LoadErrNoRowsIsNotFound(table, reconciliationID, fault) ==
    IF fault # "nil"
    THEN NewAPIError(ErrInternalServer, "Failed to load reconciliation progress", fault)
    ELSE IF ProgressRows(table, reconciliationID) = <<>>
         THEN NewAPIError(ErrNotFound, "Failed to load reconciliation progress", "sql.ErrNoRows")
         ELSE Nil
LoadReconciliationProgressErr(table, reconciliationID, fault) ==
    IF fault # "nil"
    THEN NewAPIError(ErrInternalServer, "Failed to load reconciliation progress", fault)
    ELSE IF ProgressRows(table, reconciliationID) = <<>> THEN Nil
    ELSE IF UnmarshalFails(ProgressRows(table, reconciliationID)[1].progress)
         THEN NewAPIError(ErrInternalServer, "Failed to unmarshal reconciliation progress", "json")
         ELSE Nil
LoadReconciliationProgress(table, reconciliationID) ==
    LET rows == ProgressRows(table, reconciliationID) IN
    IF rows = <<>> \/ LoadReconciliationProgressErr(table, reconciliationID, "nil") # Nil
    THEN EmptyProgress
    ELSE UnmarshalProgress(rows[1].progress)

\* a progress document as a caller holds it: the five fields, and possibly a
\* field the store's type does not declare
ProgressDocument(doc, extra) ==
    [k \in ProgressKeys \cup extra |->
        IF k \in ProgressKeys THEN MarshalProgress(doc)[k] ELSE JSONString("kept")]
\* the document as the parameter progress model.ReconciliationProgress holds it
BindProgress(document) == UnmarshalProgress(document)

progressFrame == <<reconciliations, matches, external_transactions, now, rm, pager,
                   drv, cand, pageSize, kills, matching_rules, api>>

\* SaveReconciliationProgress, up to json.Marshal(progress)
SaveProgressMarshal(w, reconciliationID, document) ==
    /\ pw[w].pc = "idle"
    /\ calls < MaxSaves
    /\ calls' = calls + 1
    /\ pw' = [pw EXCEPT ![w] = [pc |-> "marshalled", rid |-> reconciliationID,
                                progress |-> document,
                                json |-> MarshalProgress(BindProgress(document))]]
    /\ UNCHANGED <<progress, ret, progressFrame>>

\* SaveReconciliationProgress, the upsert and the return
SaveProgressExec(w, fault) ==
    /\ pw[w].pc = "marshalled"
    /\ pw' = [pw EXCEPT ![w] = NoSave]
    /\ progress' = IF fault = "nil" THEN UpsertProgress(progress, pw[w].rid, pw[w].json)
                   ELSE progress
    /\ ret' = [op |-> "SaveReconciliationProgress", id |-> pw[w].rid, status |-> "returned",
               err |-> IF fault = "nil" THEN Nil
                       ELSE NewAPIError(ErrInternalServer,
                                        "Failed to save reconciliation progress", fault),
               prev |-> ProgressRows(progress, pw[w].rid), out |-> pw[w].progress]
    /\ UNCHANGED <<calls, progressFrame>>

\* LoadReconciliationProgress: QueryRow, Scan, json.Unmarshal
LoadProgress(reconciliationID, fault) ==
    /\ calls < MaxSaves
    /\ calls' = calls + 1
    /\ ret' = [op |-> "LoadReconciliationProgress", id |-> reconciliationID, status |-> "returned",
               err |-> LoadReconciliationProgressErr(progress, reconciliationID, fault),
               prev |-> ProgressRows(progress, reconciliationID),
               out |-> IF fault = "nil" THEN LoadReconciliationProgress(progress, reconciliationID)
                       ELSE EmptyProgress]
    /\ UNCHANGED <<progress, pw, progressFrame>>

(* ------------------------- blnk.matching_rules ------------------------- *)
RuleIds == {"m1", "m2"}
\* the ways a matching-rule call fails: the connection, or the criteria document
\* that json.Marshal or json.Unmarshal rejects
RuleFaults == {"nil", "conn", "json"}

\* model.MatchingRule: the columns the calls write
MatchingRule(ruleID, name, criteria) == [rule_id |-> ruleID, name |-> name, criteria |-> criteria]
RuleRows(table, id) == SelectSeq(table, LAMBDA r : r.rule_id = id)
\* matching_rules.rule_id UNIQUE
RuleUniqueViolation(table, id) == RuleRows(table, id) # <<>>

ruleFrame == <<reconciliations, matches, external_transactions, now, rm, pager, driverVars, pw, api>>

\* RecordMatchingRule: json.Marshal(rule.Criteria), then one INSERT
RecordMatchingRule(rule, fault) ==
    /\ calls < MaxCalls
    /\ calls' = calls + 1
    /\ UNCHANGED ruleFrame
    /\ LET err == IF fault = "json"
                  THEN NewAPIError(ErrInternalServer, "Failed to marshal matching rule criteria", fault)
                  ELSE IF fault # "nil"
                  THEN NewAPIError(ErrInternalServer, "Failed to record matching rule", fault)
                  ELSE IF RuleUniqueViolation(matching_rules, rule.rule_id)
                  THEN NewAPIError(ErrInternalServer, "Failed to record matching rule",
                                   "unique_violation")
                  ELSE Nil
       IN /\ matching_rules' = IF err = Nil THEN Append(matching_rules, rule) ELSE matching_rules
          /\ ret' = [op |-> "RecordMatchingRule", id |-> rule.rule_id, status |-> "", err |-> err,
                     prev |-> RuleRows(matching_rules, rule.rule_id), out |-> <<>>]

\* UPDATE blnk.matching_rules SET name = $2, description = $3, criteria = $4 WHERE rule_id = $1
UpdateRuleRows(table, rule) ==
    [i \in 1..Len(table) |->
        IF table[i].rule_id = rule.rule_id
        THEN [table[i] EXCEPT !.name = rule.name, !.criteria = rule.criteria]
        ELSE table[i]]

\* UpdateMatchingRule: marshal error, statement error, rowsAffected == 0
UpdateRuleErrIgnoresRowsAffected(table, rule, fault) ==
    IF fault = "json"
    THEN NewAPIError(ErrInternalServer, "Failed to marshal matching rule criteria", fault)
    ELSE IF fault # "nil"
    THEN NewAPIError(ErrInternalServer, "Failed to update matching rule", fault)
    ELSE Nil
UpdateMatchingRuleErr(table, rule, fault) ==
    IF fault = "json"
    THEN NewAPIError(ErrInternalServer, "Failed to marshal matching rule criteria", fault)
    ELSE IF fault # "nil"
    THEN NewAPIError(ErrInternalServer, "Failed to update matching rule", fault)
    ELSE IF RuleRows(table, rule.rule_id) = <<>>
    THEN NewAPIError(ErrNotFound, "Matching rule not found", "nil")
    ELSE Nil

UpdateMatchingRule(rule, fault) ==
    /\ calls < MaxCalls
    /\ calls' = calls + 1
    /\ UNCHANGED ruleFrame
    /\ matching_rules' = IF fault = "nil" THEN UpdateRuleRows(matching_rules, rule)
                         ELSE matching_rules
    /\ ret' = [op |-> "UpdateMatchingRule", id |-> rule.rule_id, status |-> "",
               err |-> UpdateMatchingRuleErr(matching_rules, rule, fault),
               prev |-> RuleRows(matching_rules, rule.rule_id), out |-> <<>>]

\* DeleteMatchingRule: DELETE ... WHERE rule_id = $1; rowsAffected == 0 is NotFound
DeleteMatchingRule(id, fault) ==
    /\ calls < MaxCalls
    /\ calls' = calls + 1
    /\ UNCHANGED ruleFrame
    /\ matching_rules' = IF fault = "nil"
                         THEN SelectSeq(matching_rules, LAMBDA r : r.rule_id # id)
                         ELSE matching_rules
    /\ ret' = [op |-> "DeleteMatchingRule", id |-> id, status |-> "",
               err |-> IF fault # "nil"
                       THEN NewAPIError(ErrInternalServer, "Failed to delete matching rule", "conn")
                       ELSE IF RuleRows(matching_rules, id) = <<>>
                       THEN NewAPIError(ErrNotFound, "Matching rule not found", "nil")
                       ELSE Nil,
               prev |-> RuleRows(matching_rules, id), out |-> <<>>]

\* GetMatchingRule: QueryRow + Scan, sql.ErrNoRows is NotFound; then json.Unmarshal
GetMatchingRule(id, fault) ==
    /\ calls < MaxCalls
    /\ calls' = calls + 1
    /\ UNCHANGED ruleFrame
    /\ UNCHANGED matching_rules
    /\ LET err == IF fault = "conn"
                  THEN NewAPIError(ErrInternalServer, "Failed to retrieve matching rule", fault)
                  ELSE IF RuleRows(matching_rules, id) = <<>>
                  THEN NewAPIError(ErrNotFound, "Matching rule not found", "sql.ErrNoRows")
                  ELSE IF fault = "json"
                  THEN NewAPIError(ErrInternalServer,
                                   "Failed to unmarshal matching rule criteria", fault)
                  ELSE Nil
       IN ret' = [op |-> "GetMatchingRule", id |-> id, status |-> "", err |-> err,
                  prev |-> RuleRows(matching_rules, id),
                  out |-> IF err = Nil THEN <<RuleRows(matching_rules, id)[1]>> ELSE <<>>]

(* ------------------- api.UpdateInflightStatus (HTTP) ------------------- *)
StatusOK == 200
StatusBadRequest == 400

\* an error of ProcessTransactionInBatches is the set of phrases its message
\* contains; strings.Contains(err.Error(), phrase)
Contains(err, phrase) == phrase \in err
NoError == {}
ProcessErrors ==
    {NoError, {"boom"}, {"not in inflight status"}, {"already committed"}, {"already voided"},
     {"not in inflight status", "already committed"},
     {"not in inflight status", "already voided"}}

\* gin: c.JSON(code, body) sets the status unless the header is already out,
\* then writes the body
WriteJSON(writer, code, body) ==
    [status |-> IF writer.written THEN writer.status ELSE code,
     written |-> TRUE,
     bodies |-> Append(writer.bodies, [http |-> code, code |-> body])]
\* gin: c.BindJSON on an error aborts with 400 and writes the header at once
AbortWithStatus(writer, code) ==
    [writer EXCEPT !.status = IF writer.written THEN @ ELSE code, !.written = TRUE]

\* which worker the handler passes to ProcessTransactionInBatches
WorkerAlwaysCommit(status) == "CommitWorker"
WorkerFor(status) == IF status = "commit" THEN "CommitWorker" ELSE "VoidWorker"

\* the code of the 400 that answers a processing error
InflightErrorCode(status, err) ==
    IF status = "commit"
    THEN (IF Contains(err, "not in inflight status") THEN "INVALID_STATUS"
          ELSE IF Contains(err, "already committed") THEN "ALREADY_COMMITTED"
          ELSE "COMMIT_ERROR")
    ELSE (IF Contains(err, "not in inflight status") THEN "INVALID_STATUS"
          ELSE IF Contains(err, "already voided") THEN "ALREADY_VOIDED"
          ELSE "VOID_ERROR")

apiFrame == <<reconciliations, matches, external_transactions, now, ret, rm, calls, pager,
              driverVars, pw, matching_rules>>

\* a request reaches the handler: with or without the txID parameter, with a body
\* that binds or not, with the status the body names
RequestArrives(hasID, binds, status, amount) ==
    /\ api.pc \in {"none", "done"}
    /\ api.served < MaxRequests
    /\ api' = [NoRequest EXCEPT !.pc = "params", !.served = api.served + 1,
                                !.hasID = hasID, !.binds = binds, !.status = status,
                                !.amount = amount]
    /\ UNCHANGED apiFrame

\* id, passed := c.Params.Get("txID")
CheckParams ==
    /\ api.pc = "params"
    /\ api' = IF ~api.hasID
              THEN [api EXCEPT !.pc = "done",
                               !.writer = WriteJSON(@, StatusBadRequest, "MISSING_ID")]
              ELSE [api EXCEPT !.pc = "bind"]
    /\ UNCHANGED apiFrame

\* err := c.BindJSON(&req)
BindJSON ==
    /\ api.pc = "bind"
    /\ api' = IF ~api.binds
              THEN [api EXCEPT !.pc = "done",
                               !.writer = WriteJSON(AbortWithStatus(@, StatusBadRequest),
                                                    StatusBadRequest, "INVALID_INPUT")]
              ELSE [api EXCEPT !.pc = "dispatch"]
    /\ UNCHANGED apiFrame

\* if status == "commit" ... else if status == "void" ... else; the two branches
\* call ProcessTransactionInBatches(ctx, id, req.Amount, 1, false, ..., worker)
Dispatch ==
    /\ api.pc = "dispatch"
    /\ api' = IF api.status \in {"commit", "void"}
              THEN [api EXCEPT !.pc = "processing",
                               !.invoked = Append(@, [worker |-> WorkerFor(api.status),
                                                      amount |-> api.amount])]
              ELSE [api EXCEPT !.pc = "done",
                               !.writer = WriteJSON(@, StatusBadRequest, "INVALID_STATUS")]
    /\ UNCHANGED apiFrame

\* ProcessTransactionInBatches returns (transaction, err); the handler answers
ProcessReturns(err, found) ==
    /\ api.pc = "processing"
    /\ api' = [api EXCEPT
                 !.pc = "done", !.err = err, !.found = found,
                 !.writer =
                    IF err # NoError
                    THEN WriteJSON(@, StatusBadRequest, InflightErrorCode(api.status, err))
                    ELSE IF found = 0
                    THEN WriteJSON(@, StatusBadRequest, "NOT_FOUND")
                    ELSE WriteJSON(@, StatusOK, "transaction")]
    /\ UNCHANGED apiFrame

(* ---------------------------- batch driver ----------------------------- *)
\* the run the driver works on, and its upload
DriverRun == "r1"
DriverUpload == "u1"

Stopped == [pc |-> "stopped", offset |-> 0, matched |-> 0, unmatched |-> 0,
            consumed |-> {}, page |-> <<>>, buffer |-> <<>>]

IntRank(id) == CHOOSE i \in 1..Len(IntOrder) : IntOrder[i] = id
\* the internal transaction selected for an external one: among its candidates not
\* yet consumed, the lexicographically smallest; "" when there is none
Selected(candidates, ext, consumed) ==
    LET free == candidates[ext] \ consumed IN
    IF free = {} THEN ""
    ELSE CHOOSE i \in free : \A k \in free : IntRank(i) <= IntRank(k)

\* step 4 of the driver over one page: the match buffer, the consumed set and the
\* number of unmatched items, in page order
RECURSIVE MatchPage(_, _, _)
MatchPage(candidates, page, st) ==
    IF page = <<>> THEN st
    ELSE LET ext == Head(page).ID
             int == Selected(candidates, ext, st.consumed)
         IN MatchPage(candidates, Tail(page),
                IF int = ""
                THEN [st EXCEPT !.unmatched = @ + 1]
                ELSE [st EXCEPT !.buffer = Append(@, Match(ext, int, DriverRun)),
                                !.consumed = @ \cup {int}])

\* RecordMatches as one call that meets no connection fault
RecordMatchesErr(table, reconciliationID, batch) ==
    IF MatchUniqueViolation(table, CopyInRows(reconciliationID, batch))
    THEN NewAPIError(ErrInternalServer, "Failed to flush batch insert", "unique_violation")
    ELSE Nil
RecordMatchesTable(table, reconciliationID, batch) ==
    LET rows == CopyInRows(reconciliationID, batch) IN
    IF RecordMatchesErr(table, reconciliationID, batch) = Nil
    THEN TableAfterCommit(TableBeforeCommit(table, rows), rows)
    ELSE TableAfterRollback(TableBeforeCommit(table, rows), rows)

driverFrame == <<now, ret, rm, calls, pager, cand, pageSize, external_transactions, otherVars>>

\* Coordinator.create: the run's row, pending
CoordinatorCreate ==
    /\ ~ReconExists(DriverRun)
    /\ reconciliations' = Append(reconciliations,
                                 Reconciliation(DriverRun, DriverUpload, "pending", 0, 0, NULL))
    /\ UNCHANGED <<matches, progress, drv, kills, driverFrame>>

\* Coordinator.start / resume, and step 1 of the driver: the run becomes running,
\* the progress is loaded, the consumed set is rebuilt from the run's matches
DriverStart ==
    /\ drv.pc = "stopped"
    /\ ReconExists(DriverRun)
    /\ ReconRows(DriverRun)[1].status \in {"pending", "running", "failed"}
    /\ LET p == LoadReconciliationProgress(progress, DriverRun)
           stored == MatchesJoinedByExternal(matches, external_transactions, DriverRun)
       IN
       /\ drv' = [Stopped EXCEPT !.pc = "loaded",
                                 !.offset = p.page_offset,
                                 !.matched = p.matched_count, !.unmatched = p.unmatched_count,
                                 !.consumed = {stored[i].InternalTransactionID : i \in 1..Len(stored)}]
       /\ reconciliations' = UpdateStatusRows(reconciliations, DriverRun, "running",
                                 p.matched_count, p.unmatched_count,
                                 CompletedAtParam("running", now))
    /\ UNCHANGED <<matches, progress, kills, driverFrame>>

\* step 3: one page
DriverFetch ==
    /\ drv.pc = "loaded"
    /\ \E page \in GetExternalTransactionsPaginated(external_transactions, DriverUpload,
                                                    pageSize, drv.offset) :
          drv' = [drv EXCEPT !.pc = "fetched", !.page = page]
    /\ UNCHANGED <<reconciliations, matches, progress, kills, driverFrame>>

\* step 4: the page's matches are selected, its unmatched items counted
DriverMatch ==
    /\ drv.pc = "fetched"
    /\ LET st == MatchPage(cand, drv.page,
                           [buffer |-> <<>>, consumed |-> drv.consumed, unmatched |-> drv.unmatched])
       IN drv' = [drv EXCEPT !.pc = "matched", !.buffer = st.buffer,
                             !.consumed = st.consumed, !.unmatched = st.unmatched]
    /\ UNCHANGED <<reconciliations, matches, progress, kills, driverFrame>>

\* step 5, first write: the page's matches.  An error that no retry cures ends the
\* run as failed, with the progress left as it is.
DriverRecord ==
    /\ drv.pc = "matched"
    /\ matches' = RecordMatchesTable(matches, DriverRun, drv.buffer)
    /\ IF RecordMatchesErr(matches, DriverRun, drv.buffer) = Nil
       THEN /\ drv' = [drv EXCEPT !.pc = "recorded", !.matched = @ + Len(drv.buffer)]
            /\ UNCHANGED reconciliations
       ELSE /\ drv' = Stopped
            /\ reconciliations' = UpdateStatusRows(reconciliations, DriverRun, "failed",
                                      drv.matched, drv.unmatched, CompletedAtParam("failed", now))
    /\ UNCHANGED <<progress, kills, driverFrame>>

\* step 5, second write: the checkpoint
DriverSave ==
    /\ drv.pc = "recorded"
    /\ LET offset == drv.offset + Len(drv.page) IN
       /\ progress' = SaveReconciliationProgress(progress, DriverRun,
                         Progress(IF drv.page = <<>> THEN "" ELSE drv.page[Len(drv.page)].ID,
                                  offset, drv.matched, drv.unmatched, offset))
       /\ drv' = [drv EXCEPT !.pc = IF Len(drv.page) < pageSize THEN "drained" ELSE "loaded",
                             !.offset = offset, !.page = <<>>, !.buffer = <<>>]
    /\ UNCHANGED <<reconciliations, matches, kills, driverFrame>>

\* step 6: a short page drains the run
DriverComplete ==
    /\ drv.pc = "drained"
    /\ reconciliations' = UpdateStatusRows(reconciliations, DriverRun, "completed",
                              drv.matched, drv.unmatched, CompletedAtParam("completed", now))
    /\ drv' = [Stopped EXCEPT !.pc = "finished"]
    /\ UNCHANGED <<matches, progress, kills, driverFrame>>

\* the process dies; what it held in memory is gone
DriverKill ==
    /\ drv.pc \notin {"stopped", "finished"}
    /\ kills < MaxKills
    /\ kills' = kills + 1
    /\ drv' = Stopped
    /\ UNCHANGED <<reconciliations, matches, progress, driverFrame>>

(* --------------------------- specifications ---------------------------- *)
\* no progress call in flight, no matching rule, no request served
InitOther ==
    /\ pw = [w \in Writers |-> NoSave]
    /\ matching_rules = <<>>
    /\ api = NoRequest

Init ==
    /\ reconciliations = <<>>
    /\ matches = <<>>
    /\ external_transactions = <<>>
    /\ now = 0
    /\ ret = NoCall
    /\ rm = [c \in Callers |-> Idle]
    /\ calls = 0
    /\ pager = NoPager
    /\ progress = <<>>
    /\ drv = Stopped
    /\ cand = [e \in ExtIds |-> {}]
    /\ pageSize = 1
    /\ kills = 0
    /\ InitOther

\* what a caller may hand to RecordReconciliation: any status, completed_at set or not
RecInputs ==
    {Reconciliation(id, u, s, 0, 0, NullTimeOf(now, v)) :
        id \in RIds, u \in Uploads, s \in Statuses, v \in BOOLEAN}

NextRecon ==
    \/ \E rec \in RecInputs, f \in ConnFaults : RecordReconciliation(rec, f)
    \/ \E id \in RIds, f \in ConnFaults : GetReconciliation(id, f)
    \/ \E id \in RIds, s \in Statuses, m \in 0..MaxCount, u \in 0..MaxCount, f \in ConnFaults :
          UpdateReconciliationStatus(id, s, m, u, f)

SpecRecon == Init /\ [][NextRecon]_vars

\* the batches a caller hands to RecordMatches; the matches carry the run's id
RECURSIVE SeqsUpTo(_, _)
SeqsUpTo(S, n) ==
    IF n = 0 THEN {<<>>}
    ELSE LET shorter == SeqsUpTo(S, n - 1) IN
         shorter \cup {Append(q, x) : q \in shorter, x \in S}

MatchInputs(rid) == {Match(e, "i1", rid) : e \in ExtIds}
Batches(rid) == SeqsUpTo(MatchInputs(rid), MaxBatch)

Next ==
    \/ \E c \in Callers, rid \in RIds, f \in ConnFaults :
          \E batch \in Batches(rid) : RecordMatchesBegin(c, rid, batch, f)
    \/ \E c \in Callers, f \in ConnFaults : RecordMatchesPrepare(c, f)
    \/ \E c \in Callers, f \in ConnFaults : RecordMatchesExec(c, f)
    \/ \E c \in Callers, f \in ConnFaults : RecordMatchesFlush(c, f)
    \/ \E c \in Callers, f \in ConnFaults : RecordMatchesCommit(c, f)
    \/ \E rid \in RIds, f \in ConnFaults : \E m \in MatchInputs(rid) : RecordMatch(m, f)

Spec == Init /\ [][Next]_vars

\* one session writing matches, the ingestion of external transactions, and the
\* query that joins the two
NextJoin ==
    \/ \E rid \in RIds : \E batch \in Batches(rid) : RecordMatchesBegin("c1", rid, batch, "nil")
    \/ RecordMatchesPrepare("c1", "nil")
    \/ RecordMatchesExec("c1", "nil")
    \/ RecordMatchesFlush("c1", "nil")
    \/ RecordMatchesCommit("c1", "nil")
    \/ \E rid \in RIds, f \in ConnFaults : \E m \in MatchInputs(rid) : RecordMatch(m, f)
    \/ \E e \in ExtIds, d \in Dates, u \in Uploads, f \in ConnFaults :
          RecordExternalTransaction(ExternalTransaction(e, d), u, f)
    \/ \E rid \in RIds, f \in ConnFaults : GetMatchesByReconciliationID(rid, f)

SpecJoin == Init /\ [][NextJoin]_vars

\* an upload as ingestion left it: each external transaction recorded or not, with
\* its date and its upload
ExternalRow(id, date, uploadID) ==
    [id |-> id, date |-> date, upload_id |-> uploadID, reconciliation_id |-> "NULL"]
RECURSIVE ExternalTables(_)
ExternalTables(n) ==
    IF n = 0 THEN {<<>>}
    ELSE LET before == ExternalTables(n - 1) IN
         before \cup {Append(t, ExternalRow(ExtOrder[n], d, u)) :
                        t \in before, d \in Dates, u \in Uploads}

InitPaging ==
    /\ reconciliations = <<>>
    /\ matches = <<>>
    /\ external_transactions \in ExternalTables(Len(ExtOrder))
    /\ now = 0
    /\ ret = NoCall
    /\ rm = [c \in Callers |-> Idle]
    /\ calls = 0
    /\ pager = NoPager
    /\ progress = <<>>
    /\ drv = Stopped
    /\ cand = [e \in ExtIds |-> {}]
    /\ pageSize = 1
    /\ kills = 0
    /\ InitOther

NextPaging ==
    \/ \E u \in Uploads, b \in 1..MaxBatch : PagerStart(u, b)
    \/ PagerFetch
    \/ \E k \in 1..Len(ExtOrder) + 1 : PagerRefetch(k)

SpecPaging == InitPaging /\ [][NextPaging]_vars

\* the driver over an ingested upload; which internal transactions the rules
\* match with each external one is fixed for the run
InitDriver ==
    /\ reconciliations = <<>>
    /\ matches = <<>>
    /\ external_transactions \in ExternalTables(Len(ExtOrder))
    /\ now = 0
    /\ ret = NoCall
    /\ rm = [c \in Callers |-> Idle]
    /\ calls = 0
    /\ pager = NoPager
    /\ progress = <<>>
    /\ drv = Stopped
    /\ cand \in [ExtIds -> SUBSET IntIds]
    /\ pageSize \in 1..MaxBatch
    /\ kills = 0
    /\ InitOther

NextDriver ==
    \/ CoordinatorCreate
    \/ DriverStart
    \/ DriverFetch
    \/ DriverMatch
    \/ DriverRecord
    \/ DriverSave
    \/ DriverComplete
    \/ DriverKill

SpecDriver == InitDriver /\ [][NextDriver]_vars

\* the Coordinator's create: a run starts pending, with no completed_at
PendingInputs ==
    {Reconciliation(id, u, "pending", 0, 0, NULL) : id \in RIds, u \in Uploads}

NextLifecycle ==
    \/ \E rec \in PendingInputs, f \in ConnFaults : RecordReconciliation(rec, f)
    \/ \E id \in RIds, f \in ConnFaults : GetReconciliation(id, f)
    \/ \E id \in RIds, s \in Statuses, m \in 0..MaxCount, u \in 0..MaxCount, f \in ConnFaults :
          UpdateReconciliationStatus(id, s, m, u, f)

SpecLifecycle == Init /\ [][NextLifecycle]_vars

\* the rules callers record and update
RuleInputs == {MatchingRule(id, n, k) : id \in RuleIds, n \in {"a", "b"}, k \in {"k1"}}

\* the operations that address one row by its id, and the inserts before them
NextById ==
    \/ \E rec \in PendingInputs : RecordReconciliation(rec, "nil")
    \/ \E id \in RIds, f \in ConnFaults : GetReconciliation(id, f)
    \/ \E id \in RIds, s \in Statuses, f \in ConnFaults : UpdateReconciliationStatus(id, s, 0, 0, f)
    \/ \E rule \in RuleInputs : RecordMatchingRule(rule, "nil")
    \/ \E rule \in RuleInputs, f \in RuleFaults : UpdateMatchingRule(rule, f)
    \/ \E id \in RuleIds, f \in RuleFaults \ {"json"} : DeleteMatchingRule(id, f)
    \/ \E id \in RuleIds, f \in RuleFaults : GetMatchingRule(id, f)

SpecById == Init /\ [][NextById]_vars

\* requests to PUT /transactions/inflight/:txID
RequestStatuses == {"commit", "void", "", "refund"}
NextApi ==
    \/ \E hasID \in BOOLEAN, binds \in BOOLEAN, status \in RequestStatuses, amount \in 0..1 :
          RequestArrives(hasID, binds, status, amount)
    \/ CheckParams
    \/ BindJSON
    \/ Dispatch
    \/ \E err \in ProcessErrors, found \in 0..1 : ProcessReturns(err, found)

SpecApi == Init /\ [][NextApi]_vars

\* the progress documents callers save: with and without a field the store's
\* type does not declare
ProgressDocuments ==
    UNION {{ProgressDocument(Progress(IF n = 0 THEN "" ELSE "e1", n, m, n - m, n), x) :
                m \in 0..n, x \in {{}, {"note"}}} : n \in {0, 1}}

\* several sessions saving and loading progress
NextProgress ==
    \/ \E w \in Writers, rid \in RIds, d \in ProgressDocuments : SaveProgressMarshal(w, rid, d)
    \/ \E w \in Writers, f \in ConnFaults : SaveProgressExec(w, f)
    \/ \E rid \in RIds, f \in ConnFaults : LoadProgress(rid, f)

SpecProgress == Init /\ [][NextProgress]_vars

(* ------------------------------ claims --------------------------------- *)
UpdatedOk == ret.op = "UpdateReconciliationStatus" /\ ret.err = Nil

\* C1 (as stated): a successful update_reconciliation_status sets completed_at to
\* the current time when status is "completed" and otherwise leaves the row's
\* completed_at exactly as it was before the call.
C1_CompletedAtKeptUnlessCompleted ==
    UpdatedOk =>
        \A i \in 1..Len(reconciliations) :
            reconciliations[i].reconciliation_id = ret.id =>
                reconciliations[i].completed_at =
                    IF ret.status = "completed" THEN NullTimeOf(now, TRUE)
                    ELSE ret.prev[1].completed_at

\* C1 (amended): a successful update_reconciliation_status sets completed_at to the
\* current time when status is "completed" and to NULL for every other status,
\* whatever the row held before.
C1_CompletedAtClearedUnlessCompleted ==
    UpdatedOk =>
        \A i \in 1..Len(reconciliations) :
            reconciliations[i].reconciliation_id = ret.id =>
                reconciliations[i].completed_at =
                    IF ret.status = "completed" THEN NullTimeOf(now, TRUE) ELSE NULL

\* a run that had a completed_at was updated to "running" or "failed" and lost it
C1_Witness ==
    /\ UpdatedOk
    /\ ret.status \in {"running", "failed"}
    /\ ret.prev[1].completed_at.Valid
    /\ ReconRows(ret.id)[1].completed_at = NULL

\* C8 (as stated): record_reconciliation with an id that already exists fails with
\* AlreadyExists (not Internal, which is for store errors), leaves the existing row
\* unchanged, and there is never more than one row per reconciliation_id.
C8_DuplicateIsAlreadyExists ==
    /\ \A id \in RIds : Len(ReconRows(id)) <= 1
    /\ (ret.op = "RecordReconciliation" /\ Len(ret.prev) > 0 /\ ret.err.cause # "conn") =>
          /\ ret.err.code = "AlreadyExists"
          /\ ReconRows(ret.id) = ret.prev

\* C9 (as stated): for runs created pending and then updated, completed_at is
\* non-null exactly when the status is "completed" or "failed".
C9_CompletedAtIffTerminal ==
    \A i \in 1..Len(reconciliations) :
        reconciliations[i].completed_at.Valid <=>
            reconciliations[i].status \in {"completed", "failed"}

\* C9 (amended): for runs created pending and then updated, completed_at is
\* non-null exactly when the status is "completed"; a failed run has none.
C9_CompletedAtIffCompleted ==
    \A i \in 1..Len(reconciliations) :
        reconciliations[i].completed_at.Valid <=> reconciliations[i].status = "completed"

\* a completed run was updated to "failed" and is left without a completed_at
C9_Witness ==
    /\ UpdatedOk
    /\ ret.status = "failed"
    /\ ret.prev[1].status = "completed" /\ ret.prev[1].completed_at.Valid
    /\ ReconRows(ret.id)[1].status = "failed"
    /\ ~ReconRows(ret.id)[1].completed_at.Valid

Stored(row) == \E i \in 1..Len(matches) : matches[i] = row
KeyCount(key) == Cardinality({i \in 1..Len(matches) : MatchKey(matches[i]) = key})

\* C2: record_matches is all-or-nothing.  No step of a call changes the matches
\* table except its commit, which adds the whole batch at once; a call that ends
\* with an error (at begin, prepare, a row's exec, the flush or the commit) has
\* left the table as it was, and a call that ends without one has added every row.
C2_AllOrNothing ==
    [][ /\ matches' # matches =>
              \/ \E c \in Callers :
                    /\ rm[c].pc = "flushed" /\ rm'[c].pc = "done" /\ rm'[c].err = Nil
                    /\ matches' = matches \o CopyInRows(rm[c].rid, rm[c].batch)
              \/ ret'.op = "RecordMatch" /\ ret'.err = Nil /\ matches' = matches \o ret'.out
        /\ \A c \in Callers :
              (rm[c].pc # "done" /\ rm'[c].pc = "done") =>
                  matches' = IF rm'[c].err = Nil
                             THEN matches \o CopyInRows(rm[c].rid, rm[c].batch)
                             ELSE matches
      ]_vars

\* a batch of two rows went through exec and flush, the commit failed, and no row
\* of the batch is in the table
C2_Witness ==
    \E c \in Callers :
        /\ rm[c].pc = "done"
        /\ rm[c].err.message = "Failed to commit transaction"
        /\ Len(rm[c].batch) = 2
        /\ \A i \in 1..2 : ~Stored(CopyInRows(rm[c].rid, rm[c].batch)[i])

\* C3: the matches table never holds two rows with the same
\* (reconciliation_id, external_transaction_id), whatever record_matches and
\* record_match calls were made and however they interleaved.
C3_MatchKeyUnique ==
    \A i, j \in 1..Len(matches) : i # j => MatchKey(matches[i]) # MatchKey(matches[j])

\* a batch was refused for a key the table already held, with rows of two runs stored
C3_Witness ==
    /\ \E c \in Callers : rm[c].pc = "done" /\ rm[c].err.cause = "unique_violation"
    /\ \E i, j \in 1..Len(matches) : matches[i].reconciliation_id # matches[j].reconciliation_id

\* C4 (as stated): record_matches is idempotent.  A second call with the payload
\* the first call recorded is a no-op: it does not fail the caller and the table
\* holds each row of the payload exactly once, as after the first call.
C4_ReplayIsNoOp ==
    \A c \in Callers :
        (rm[c].pc = "done" /\ rm[c].replay /\ rm[c].err.cause # "conn") =>
            /\ rm[c].err = Nil
            /\ \A i \in 1..Len(rm[c].batch) :
                  KeyCount(MatchKey(CopyInRows(rm[c].rid, rm[c].batch)[i])) = 1

\* C10 (as stated): get_matches_by_reconciliation(id) returns every match stored
\* under id whose external transaction is stored, and nothing stored only under
\* another reconciliation_id.
C10_GetReturnsMatchesOfRun ==
    (ret.op = "GetMatchesByReconciliationID" /\ ret.err = Nil) =>
        /\ \A i \in 1..Len(matches) :
              (/\ matches[i].reconciliation_id = ret.id
               /\ ExternalUniqueViolation(matches[i].external_transaction_id)) =>
                  \E k \in 1..Len(ret.out) :
                      /\ ret.out[k].ExternalTransactionID = matches[i].external_transaction_id
                      /\ ret.out[k].InternalTransactionID = matches[i].internal_transaction_id
        /\ \A k \in 1..Len(ret.out) :
              Stored(MatchRow(ret.out[k].ExternalTransactionID,
                              ret.out[k].InternalTransactionID, ret.id))

RECURSIVE Flatten(_)
Flatten(pages) == IF pages = <<>> THEN <<>> ELSE Head(pages) \o Flatten(Tail(pages))
ExtRank(id) == CHOOSE i \in 1..Len(ExtOrder) : ExtOrder[i] = id
\* the rows of an upload in the one order the claim names: date descending, ties by id ascending
TotalOrder(uploadID) ==
    LET rows == ExternalsOfUpload(external_transactions, uploadID) IN
    CHOOSE q \in DateDescOrders(rows) :
        \A i, j \in 1..Len(rows) :
            (i < j /\ q[i].date = q[j].date) => ExtRank(q[i].id) < ExtRank(q[j].id)

\* C6 (as stated): every page holds at most batch_size rows of the upload, and for
\* an unchanged upload the pages at offsets 0, batch_size, 2*batch_size, ... (a page
\* fetched again included) are the consecutive slices of one fixed order, date
\* descending with ties broken by id ascending, so that together they hold every
\* external transaction of the upload exactly once.
C6_PagesPartitionUpload ==
    /\ \A k \in 1..Len(pager.pages) :
          /\ Len(pager.pages[k]) <= pager.batchSize
          /\ pager.pages[k] =
                ScanExternal(PageOf(TotalOrder(pager.upload), pager.batchSize,
                                    (k - 1) * pager.batchSize))
    /\ pager.pc = "drained" =>
          \A e \in ExtIds :
              Cardinality({i \in 1..Len(Flatten(pager.pages)) : Flatten(pager.pages)[i].ID = e})
                  = Cardinality({i \in 1..Len(external_transactions) :
                                    /\ external_transactions[i].id = e
                                    /\ external_transactions[i].upload_id = pager.upload})

\* what a run that is never interrupted leaves behind: one pass over the upload in
\* page order, the consumed set carried from page to page
CleanRun ==
    MatchPage(cand, ScanExternal(TotalOrder(DriverUpload)),
              [buffer |-> <<>>, consumed |-> {}, unmatched |-> 0])
\* no two external transactions of the upload share a date: the page order is fixed
DatesDistinct ==
    LET rows == ExternalsOfUpload(external_transactions, DriverUpload) IN
    \A i, j \in 1..Len(rows) : i # j => rows[i].date # rows[j].date
MatchesOfRun(reconciliationID) ==
    {matches[i] : i \in {k \in 1..Len(matches) : matches[k].reconciliation_id = reconciliationID}}

\* C5 (as stated): a run that was killed and resumed, any number of times and at
\* any point, completes with exactly the match rows and the matched/unmatched
\* counters of an uninterrupted run over the same external transactions.
C5_ResumptionEquivalence ==
    \A i \in 1..Len(reconciliations) :
        (/\ reconciliations[i].reconciliation_id = DriverRun
         /\ reconciliations[i].status = "completed"
         /\ DatesDistinct) =>
            /\ MatchesOfRun(DriverRun) = Range(CopyInRows(DriverRun, CleanRun.buffer))
            /\ reconciliations[i].matched_transactions = Len(CleanRun.buffer)
            /\ reconciliations[i].unmatched_transactions = CleanRun.unmatched

SaveReturnsNil ==
    /\ \E w \in Writers : pw[w].pc = "marshalled" /\ pw'[w].pc = "idle"
    /\ ret'.op = "SaveReconciliationProgress"
    /\ ret'.err = Nil

\* C11: save_progress is an upsert with last-writer-wins.  Whatever the
\* interleaving of the sessions, no reconciliation_id ever has two progress rows
\* and a row once written stays; the step in which a save for id returns leaves
\* exactly one row for id, from which load_progress returns that save's
\* progress, and leaves the progress of every other id as it was; no other
\* step changes the table, and load_progress returns what the table holds.
C11_UpsertLastWriterWins ==
    [][/\ \A rid \in RIds :
            /\ Len(ProgressRows(progress', rid)) <= 1
            /\ Len(ProgressRows(progress, rid)) <= Len(ProgressRows(progress', rid))
       /\ IF SaveReturnsNil
          THEN /\ Len(ProgressRows(progress', ret'.id)) = 1
               /\ LoadReconciliationProgress(progress', ret'.id) = BindProgress(ret'.out)
               /\ \A rid \in RIds \ {ret'.id} :
                     ProgressRows(progress', rid) = ProgressRows(progress, rid)
          ELSE progress' = progress
       /\ (calls' # calls /\ ret'.op = "LoadReconciliationProgress" /\ ret'.err = Nil
             /\ ret'.prev # <<>>)
            => ret'.out = UnmarshalProgress(ret'.prev[1].progress)
      ]_vars

\* a save replaced the different progress another session had saved for the same
\* id while that session, back in a new call for the id, had not yet written
C11_Witness ==
    /\ ret.op = "SaveReconciliationProgress"
    /\ ret.err = Nil
    /\ ret.prev # <<>>
    /\ ret.prev[1].progress # MarshalProgress(BindProgress(ret.out))
    /\ LoadReconciliationProgress(progress, ret.id) = BindProgress(ret.out)
    /\ \E w \in Writers : pw[w].pc = "marshalled" /\ pw[w].rid = ret.id
    /\ \E rid \in RIds \ {ret.id} : ProgressRows(progress, rid) # <<>>

\* the step is a LoadReconciliationProgress call
LoadReturns == calls' # calls /\ ret'.op = "LoadReconciliationProgress"

\* C12: load_progress for an id that has no progress row returns the empty
\* progress and no error, and no load changes anything in the store; a load
\* returns an error only when the connection fails or the stored document does
\* not deserialize, and the error is then Internal.
C12_LoadEmptySentinel ==
    [][LoadReturns =>
        /\ progress' = progress
        /\ UNCHANGED <<reconciliations, matches, external_transactions, matching_rules>>
        /\ (ProgressRows(progress, ret'.id) = <<>> /\ ret'.err.cause # "conn")
             => (ret'.err = Nil /\ ret'.out = EmptyProgress)
        /\ ret'.err # Nil =>
             /\ ret'.err.code = ErrInternalServer
             /\ \/ ret'.err.cause = "conn"
                \/ /\ ProgressRows(progress, ret'.id) # <<>>
                   /\ UnmarshalFails(ProgressRows(progress, ret'.id)[1].progress)
      ]_vars

\* a load of an id without a row, while another id has one, returned the empty
\* progress and nil
C12_Witness ==
    /\ ret.op = "LoadReconciliationProgress"
    /\ ret.prev = <<>>
    /\ ProgressRows(progress, ret.id) = <<>>
    /\ progress # <<>>
    /\ ret.err = Nil
    /\ ret.out = EmptyProgress

ReconByIdOps == {"GetReconciliation", "UpdateReconciliationStatus"}
RuleByIdOps == {"GetMatchingRule", "UpdateMatchingRule", "DeleteMatchingRule"}
\* the step is a call of an operation that addresses one row by id
ByIdReturns == (now' # now \/ calls' # calls) /\ ret'.op \in ReconByIdOps \cup RuleByIdOps
\* no row with the call's id existed when the call was made
RowAbsent ==
    IF ret'.op \in ReconByIdOps THEN ~ReconExists(ret'.id)
    ELSE RuleRows(matching_rules, ret'.id) = <<>>

\* C13: get_reconciliation, update_reconciliation_status, get_matching_rule,
\* update_matching_rule and delete_matching_rule return NotFound when no row
\* with the id exists (unless the call has already failed Internal: the
\* connection, or criteria that do not serialize), a call that returns NotFound
\* leaves every table unchanged, and a call whose row exists never returns
\* NotFound.
C13_NotFoundIffAbsent ==
    [][ByIdReturns =>
        /\ (RowAbsent /\ ret'.err.cause \notin {"conn", "json"}) => ret'.err.code = ErrNotFound
        /\ RowAbsent => ret'.err.code \in {ErrNotFound, ErrInternalServer}
        /\ ret'.err.code = ErrNotFound =>
              /\ RowAbsent
              /\ UNCHANGED <<reconciliations, matching_rules, matches,
                             external_transactions, progress>>
        /\ ~RowAbsent => ret'.err.code # ErrNotFound
      ]_vars

\* an update of a matching rule that does not exist returned NotFound and left
\* the other rule and the runs in place
C13_Witness ==
    /\ ret.op = "UpdateMatchingRule"
    /\ ret.err.code = ErrNotFound
    /\ RuleRows(matching_rules, ret.id) = <<>>
    /\ matching_rules # <<>>
    /\ reconciliations # <<>>

\* the last call to return is a save that returned nil: a load_progress now is
\* the load immediately after it
SavedOk ==
    ret.op = "SaveReconciliationProgress" /\ ret.status = "returned" /\ ret.err = Nil
\* the document load_progress hands back for id
LoadedDocument(id) == MarshalProgress(LoadReconciliationProgress(progress, id))

\* C14 (as stated): load_progress(id) immediately after a successful
\* save_progress(id, p) returns a document equal to p in every field, and the
\* fields of p that the store does not know are preserved verbatim.
C14_ProgressRoundTrip ==
    SavedOk =>
        /\ LoadReconciliationProgressErr(progress, ret.id, "nil") = Nil
        /\ DOMAIN LoadedDocument(ret.id) = DOMAIN ret.out
        /\ \A k \in DOMAIN ret.out : LoadedDocument(ret.id)[k] = ret.out[k]

\* the part of C14 the code does keep: the five fields the type declares come
\* back as they were saved
C14_DeclaredFieldsRoundTrip ==
    SavedOk =>
        /\ LoadReconciliationProgressErr(progress, ret.id, "nil") = Nil
        /\ \A k \in ProgressKeys : LoadedDocument(ret.id)[k] = ret.out[k]

\* C15: UpdateInflightStatus writes exactly one response per request and
\* dispatches by status.  Processing is invoked at most once, with the commit
\* worker only for status "commit" and the void worker only for status "void";
\* a request without id, with a body that does not bind, or with any other
\* status invokes no processing and is answered 400 (INVALID_STATUS for the
\* unsupported status); the answer is 200 only when processing returned no
\* error and at least one transaction.
C15_OneResponseDispatchByStatus ==
    /\ Len(api.writer.bodies) = (IF api.pc = "done" THEN 1 ELSE 0)
    /\ Len(api.invoked) <= 1
    /\ \A call \in Range(api.invoked) :
          /\ call.worker = "CommitWorker" => api.status = "commit"
          /\ call.worker = "VoidWorker" => api.status = "void"
          /\ call.worker \in {"CommitWorker", "VoidWorker"}
    /\ api.invoked # <<>> => api.hasID /\ api.binds
    /\ api.pc = "done" =>
          LET answer == api.writer.bodies[1] IN
          /\ api.writer.status = answer.http
          /\ answer.http \in {StatusOK, StatusBadRequest}
          /\ (~api.hasID \/ ~api.binds \/ api.status \notin {"commit", "void"}) =>
                /\ api.invoked = <<>>
                /\ answer.http = StatusBadRequest
          /\ (api.hasID /\ api.binds /\ api.status \notin {"commit", "void"}) =>
                answer.code = "INVALID_STATUS"
          /\ (api.hasID /\ api.binds /\ api.status \in {"commit", "void"}) =>
                /\ Len(api.invoked) = 1
                /\ api.invoked[1].worker =
                      (IF api.status = "commit" THEN "CommitWorker" ELSE "VoidWorker")
          /\ answer.http = StatusOK =>
                /\ api.invoked # <<>>
                /\ api.err = NoError
                /\ api.found >= 1

\* the second request, a void, was processed by the void worker and answered 200
C15_Witness ==
    /\ api.pc = "done"
    /\ api.served = 2
    /\ api.status = "void"
    /\ Len(api.invoked) = 1
    /\ api.invoked[1].worker = "VoidWorker"
    /\ api.writer.status = StatusOK
    /\ Len(api.writer.bodies) = 1
=============================================================================
